---- MODULE Spec2Model ----
(***************************************************************************)
(* Hugo front end: the App shell (health check, tab selection, warning     *)
(* banner), the ChatInterface component (transcript, input buffer, loading *)
(* flag, POST /api/chat) and the Dashboard component (four parallel GETs   *)
(* joined by Promise.all, one setData).                                    *)
(*                                                                         *)
(* React semantics the model relies on:                                    *)
(*  - App renders `activeTab === 'chat' && <ChatInterface />` and          *)
(*    `activeTab === 'dashboard' && <Dashboard />`: the component whose    *)
(*    condition turns false is unmounted and its state discarded, the one  *)
(*    whose condition turns true is mounted with the initial values of its *)
(*    useState calls and its mount effect runs;                            *)
(*  - a state setter called with the current value re-renders nothing;     *)
(*  - a state setter called on an unmounted component changes nothing;     *)
(*  - an exception thrown while rendering, with no error boundary in the   *)
(*    tree, unmounts the whole application.                                *)
(* Network semantics: fetch() rejects only on a transport failure, never   *)
(* on an HTTP status; axios rejects on a transport failure and on a status *)
(* outside 2xx. Requests are never cancelled.                              *)
(***************************************************************************)
EXTENDS Integers, Sequences, FiniteSets, TLC

\* Bounds of the exploration.
MaxSendCalls == 2    \* calls of handleSend (effective or not)
MaxTabSwitches == 3  \* clicks on a tab button that swap the views

\* ------------------------------------------------------------------ text
\* Texts typed into the input box: empty, whitespace only, plain, padded.
Inputs == { <<>>, <<" ", " ">>, <<"a">>, <<" ", "a", " ">> }

RECURSIVE TrimStart(_)
TrimStart(s) ==
  IF s = <<>> THEN s
  ELSE IF Head(s) = " " THEN TrimStart(Tail(s)) ELSE s

RECURSIVE TrimEnd(_)
TrimEnd(s) ==
  IF s = <<>> THEN s
  ELSE IF s[Len(s)] = " " THEN TrimEnd(SubSeq(s, 1, Len(s) - 1)) ELSE s

\* String.prototype.trim: whitespace removed at both ends.
trim(s) == TrimEnd(TrimStart(s))

\* `!input.trim() || loading` with the trim dropped (`!input || loading`).
SendBlockedNoTrim(inp, busy) == inp = <<>> \/ busy

\* The early return of handleSend: `if (!input.trim() || loading) return;`
SendBlocked(inp, busy) == trim(inp) = <<>> \/ busy

\* One of the EXAMPLE_QUESTIONS (all of them are non-blank).
EXAMPLE_QUESTIONS == {<<"a">>}

\* ------------------------------------------------------------- messages
GreetingText == <<"<greeting>">>
ErrorText == <<"<sorry>">>
AnswerText == <<"<answer>">>
UndefinedText == <<"<undefined>">>

Msg(role, content, hasData, isError) ==
  [role |-> role, content |-> content, data |-> hasData, error |-> isError]

\* The initial value of `messages`: the single assistant greeting.
SeedMessages == << Msg("assistant", GreetingText, FALSE, FALSE) >>

\* The message of the catch branch of handleSend.
errorMessage == Msg("assistant", ErrorText, FALSE, TRUE)

\* What the backend can do with POST /api/chat, as axios reports it:
\*   answer      2xx, {answer, data}
\*   reject      transport failure or status outside 2xx (axios rejects)
\*   nullBody    2xx whose parsed body is null
\*   noAnswer    2xx whose body is an object without `answer`
ChatOutcomes == {"answer", "reject", "nullBody", "noAnswer"}

\* The message handleSend appends for an outcome: response.data.answer throws a
\* TypeError on a null body, which the catch branch turns into errorMessage.
assistantMessage(outcome) ==
  CASE outcome = "answer"   -> Msg("assistant", AnswerText, TRUE, FALSE)
    [] outcome = "noAnswer" -> Msg("assistant", UndefinedText, FALSE, FALSE)
    [] OTHER                -> errorMessage

\* --------------------------------------------------------------- health
\* A parsed JSON value as App reads it: null, or an object whose
\* agents_initialized is true, false or missing.
Null == [object |-> FALSE, agents_initialized |-> "undefined"]
Obj(v) == [object |-> TRUE, agents_initialized |-> v]
HttpStatuses == {"ok", "error"}   \* 2xx, anything else
JsonValues == {Null} \cup {Obj(v) : v \in {"true", "false", "undefined"}}

\* ------------------------------------------------------------ dashboard
Endpoints == {"alerts", "inventory", "risks", "suppliers"}

\* What one GET can do, as axios reports it:
\*   ok        2xx with the documented shape
\*   reject    transport failure or status outside 2xx
\*   nullBody  2xx whose parsed body is null
\*   noField   2xx whose body is an object without the field read
GetOutcomes == {"ok", "reject", "nullBody", "noField"}

\* The initial value of `data`.
InitialData ==
  [alerts |-> "empty", inventory |-> "null", stockoutRisks |-> "empty",
   suppliers |-> "empty", loading |-> TRUE]

NoRequests == [e \in Endpoints |-> "none"]

\* App is src/unnamed/part_000, ChatInterface is src/unnamed/part_001, Dashboard
\* is src/frontend/src/components/Dashboard.jsx. Variables that are not state
\* of the code (health, the counters, lastCall, lastChat, reqs, joined, clears)
\* record what the network and the user did, for the properties to refer to.
VARIABLES
  activeTab,      \* App: 'chat' | 'dashboard'
  status,         \* App: null or the parsed health payload
  health,         \* the GET /api/health round trip: what the backend did
  crashed,        \* a render threw: the application is unmounted
  tabSwitches,      \* number of tab clicks that swapped the views so far
  messages,       \* ChatInterface: transcript
  input,          \* ChatInterface: pending-input buffer
  loading,        \* ChatInterface: request in flight flag
  chatGen,        \* which ChatInterface instance is (or was last) mounted
  chatReqs,       \* POST /api/chat requests in flight, each with its instance
  sendCalls,      \* number of calls of handleSend so far
  lastCall,       \* what the latest call of handleSend on this instance met
  completed,      \* number of send cycles completed so far
  lastChat,       \* outcome of the latest completed POST of the mounted chat
  data,           \* Dashboard: snapshot and loading flag
  reqs,           \* the four GETs of the mounted Dashboard's fetch cycle
  joined,         \* Promise.all of that cycle has settled
  clears,         \* calls of setData by that cycle (each passes loading: false)
  refreshCalls,   \* number of calls of fetchDashboardData so far
  dashDisplays    \* number of times the dashboard view was brought up

shellVars == <<activeTab, status, health, crashed, tabSwitches>>
chatVars == <<messages, input, loading, chatGen, chatReqs, sendCalls, lastCall,
              completed, lastChat>>
dashVars == <<data, reqs, joined, clears, refreshCalls, dashDisplays>>
vars == <<shellVars, chatVars, dashVars>>

\* ----------------------------------------------------------------- Init
\* App is mounted on the chat tab, its mount effect has issued GET /api/health,
\* ChatInterface is mounted with its initial state, Dashboard is not mounted.
Init ==
  /\ activeTab = "chat"
  /\ status = Null
  /\ health = [state |-> "pending", http |-> "none", body |-> "none"]
  /\ crashed = FALSE
  /\ tabSwitches = 0
  /\ messages = SeedMessages
  /\ input = <<>>
  /\ loading = FALSE
  /\ chatGen = 1
  /\ chatReqs = <<>>
  /\ sendCalls = 0
  /\ lastCall = "none"
  /\ completed = 0
  /\ lastChat = "none"
  /\ data = InitialData
  /\ reqs = NoRequests
  /\ joined = FALSE
  /\ clears = 0
  /\ refreshCalls = 0
  /\ dashDisplays = 0

\* ---------------------------------------------------------------- shell
\* The banner of App's render: `status && !status.agents_initialized`.
Banner == status.object /\ status.agents_initialized # "true"

\* fetch rejected (transport failure): the catch logs, status is untouched.
HealthNetworkError ==
  /\ ~crashed
  /\ health.state = "pending"
  /\ health' = [state |-> "settled", http |-> "neterr", body |-> "none"]
  /\ UNCHANGED <<activeTab, status, crashed, tabSwitches, chatVars, dashVars>>

\* fetch resolved (with any HTTP status: fetch does not look at it), res.json()
\* parsed the body and setStatus stored it.
HealthResponse(http, body) ==
  /\ ~crashed
  /\ health.state = "pending"
  /\ health' = [state |-> "settled", http |-> http,
                body |-> IF body.object THEN body.agents_initialized ELSE "null"]
  /\ status' = body
  /\ UNCHANGED <<activeTab, crashed, tabSwitches, chatVars, dashVars>>

\* fetch resolved but the body is not JSON: res.json() rejects, the catch logs.
HealthUnparsable(http) ==
  /\ ~crashed
  /\ health.state = "pending"
  /\ health' = [state |-> "settled", http |-> http, body |-> "notJson"]
  /\ UNCHANGED <<activeTab, status, crashed, tabSwitches, chatVars, dashVars>>

\* ----------------------------------------------------------------- chat
\* onChange of the textarea, which is `disabled={loading}`.
onChange(v) ==
  /\ ~crashed
  /\ activeTab = "chat"
  /\ ~loading
  /\ input' = v
  /\ UNCHANGED <<shellVars, dashVars, messages, loading, chatGen, chatReqs,
                 sendCalls, lastCall, completed, lastChat>>

\* The example buttons are rendered only while messages.length === 1.
handleExampleClick(question) ==
  /\ ~crashed
  /\ activeTab = "chat"
  /\ Len(messages) = 1
  /\ input' = question
  /\ UNCHANGED <<shellVars, dashVars, messages, loading, chatGen, chatReqs,
                 sendCalls, lastCall, completed, lastChat>>

\* handleSend up to its await: the guard, the user message, the cleared input,
\* the loading flag and the POST.
handleSend ==
  /\ ~crashed
  /\ activeTab = "chat"
  /\ sendCalls < MaxSendCalls
  /\ sendCalls' = sendCalls + 1
  /\ IF SendBlocked(input, loading)
     THEN /\ lastCall' = IF loading THEN "busy" ELSE "blank"
          /\ UNCHANGED <<messages, input, loading, chatReqs, lastChat>>
     ELSE /\ lastCall' = "sent"
          /\ messages' = Append(messages, Msg("user", input, FALSE, FALSE))
          /\ input' = <<>>
          /\ loading' = TRUE
          /\ chatReqs' = Append(chatReqs, [gen |-> chatGen])
          /\ lastChat' = "none"
  /\ UNCHANGED <<shellVars, dashVars, chatGen, completed>>

RemoveAt(s, i) == SubSeq(s, 1, i - 1) \o SubSeq(s, i + 1, Len(s))

\* The request belongs to the ChatInterface instance that is mounted now.
Live(req) == activeTab = "chat" /\ req.gen = chatGen

\* handleSend after its await: the assistant or error message, then the finally
\* branch. The setters of an instance that was unmounted meanwhile change nothing.
ChatResponse(i, outcome) ==
  /\ ~crashed
  /\ i \in 1..Len(chatReqs)
  /\ chatReqs' = RemoveAt(chatReqs, i)
  /\ completed' = completed + 1
  /\ IF Live(chatReqs[i])
     THEN /\ messages' = Append(messages, assistantMessage(outcome))
          /\ loading' = FALSE
          /\ lastChat' = outcome
     ELSE UNCHANGED <<messages, loading, lastChat>>
  /\ UNCHANGED <<shellVars, dashVars, input, chatGen, sendCalls, lastCall>>

\* ------------------------------------------------------------ dashboard
\* The value setData stores for a field read as `res.data.<field>`.
Field(outcome) == IF outcome = "ok" THEN "fetched" ELSE "undefined"

\* The object literal of setData after Promise.all resolved with results r.
\* `inventory: invRes.data` stores the body whatever it is.
Snapshot(r) ==
  [alerts |-> Field(r["alerts"]),
   inventory |-> CASE r["inventory"] = "ok" -> "fetched"
                   [] r["inventory"] = "nullBody" -> "null"
                   [] OTHER -> "incomplete",
   stockoutRisks |-> Field(r["risks"]),
   suppliers |-> Field(r["suppliers"]),
   loading |-> FALSE]

\* Building that literal throws a TypeError: `.alerts`, `.risks` or `.suppliers`
\* is read from a null body.
LiteralThrows(r) ==
  \E e \in {"alerts", "risks", "suppliers"} : r[e] = "nullBody"

\* Dashboard's render throws: it reads data.alerts.length, data.alerts.map,
\* data.stockoutRisks.slice and data.suppliers.length / .map.
RenderThrows(d) ==
  /\ ~d.loading
  /\ "undefined" \in {d.alerts, d.stockoutRisks, d.suppliers}

\* The catch branch with the loading flag left alone.
CatchKeepsLoading(d) == d

\* The catch branch committing what the other requests fetched.
CatchCommitsFetched(d) ==
  [d EXCEPT !.loading = FALSE, !.alerts = "fetched", !.inventory = "fetched",
            !.stockoutRisks = "fetched"]

\* The catch branch of fetchDashboardData: setData(prev => ({...prev, loading: false})).
Catch(d) == [d EXCEPT !.loading = FALSE]

\* The join rejects as soon as one request rejects (even the other way round:
\* with Promise.allSettled semantics it would not).
RejectsJoinNever(outcome) == FALSE

\* Promise.all rejects on the first rejection among its promises.
RejectsJoin(outcome) == outcome = "reject"

\* useState initial value and the mount effect: fetchDashboardData issues the
\* four GETs at once.
DashboardMount ==
  /\ data' = InitialData
  /\ reqs' = [e \in Endpoints |-> "pending"]
  /\ joined' = FALSE
  /\ clears' = 0
  /\ refreshCalls' = refreshCalls + 1

\* Dashboard leaves the tree and its state is discarded. Its requests keep
\* running; their continuation calls setData on an unmounted component, which
\* changes nothing, so they are not followed any further.
DashboardUnmount ==
  /\ data' = InitialData
  /\ reqs' = NoRequests
  /\ joined' = FALSE
  /\ clears' = 0
  /\ UNCHANGED refreshCalls

\* One GET of the mounted Dashboard settles. The continuation of the await
\* runs when Promise.all settles: at the first rejection, or at the fourth
\* fulfilment. A settlement after the join rejected has no continuation.
GetResponse(e, outcome) ==
  /\ ~crashed
  /\ activeTab = "dashboard"
  /\ reqs[e] = "pending"
  /\ reqs' = [reqs EXCEPT ![e] = outcome]
  /\ IF joined
     THEN UNCHANGED <<data, joined, clears, crashed>>
     ELSE IF RejectsJoin(outcome)
     THEN /\ joined' = TRUE
          /\ data' = Catch(data)
          /\ clears' = clears + 1
          /\ crashed' = RenderThrows(data')
     ELSE IF \A f \in Endpoints : reqs'[f] \notin {"pending", "reject"}
     THEN /\ joined' = TRUE
          /\ data' = IF LiteralThrows(reqs') THEN Catch(data) ELSE Snapshot(reqs')
          /\ clears' = clears + 1
          /\ crashed' = RenderThrows(data')
     ELSE UNCHANGED <<data, joined, clears, crashed>>
  /\ UNCHANGED <<activeTab, status, health, tabSwitches, chatVars, refreshCalls,
                 dashDisplays>>

\* ------------------------------------------------------------ tab change
\* useState initial values of a ChatInterface entering the tree.
ChatMount ==
  /\ messages' = SeedMessages
  /\ input' = <<>>
  /\ loading' = FALSE
  /\ lastChat' = "none"
  /\ lastCall' = "none"
  /\ chatGen' = chatGen + 1

\* ChatInterface leaves the tree: its state is discarded, its request keeps
\* running.
ChatUnmount ==
  /\ messages' = SeedMessages
  /\ input' = <<>>
  /\ loading' = FALSE
  /\ lastChat' = "none"
  /\ lastCall' = "none"
  /\ UNCHANGED chatGen

\* Every click on a tab button swaps the components.
RemountsAlways(tab) == TRUE

\* `activeTab === 'chat' && <ChatInterface />`, `activeTab === 'dashboard' &&
\* <Dashboard />`: the components are swapped only when activeTab changes.
Remounts(tab) == tab # activeTab

\* onClick of a tab button: setActiveTab(tab) and the re-render of App.
setActiveTab(tab) ==
  /\ ~crashed
  /\ tabSwitches < MaxTabSwitches
  /\ tabSwitches' = IF Remounts(tab) THEN tabSwitches + 1 ELSE tabSwitches
  /\ activeTab' = tab
  /\ dashDisplays' = IF activeTab = "chat" /\ tab = "dashboard"
                     THEN dashDisplays + 1 ELSE dashDisplays
  /\ IF ~Remounts(tab)
     THEN UNCHANGED <<messages, input, loading, lastChat, lastCall, chatGen, data, reqs,
                      joined, clears, refreshCalls>>
     ELSE IF tab = "dashboard"
     THEN ChatUnmount /\ DashboardMount
     ELSE DashboardUnmount /\ ChatMount
  /\ UNCHANGED <<status, health, crashed, chatReqs, sendCalls, completed>>

Next ==
  \/ HealthNetworkError
  \/ \E http \in HttpStatuses, body \in JsonValues : HealthResponse(http, body)
  \/ \E http \in HttpStatuses : HealthUnparsable(http)
  \/ \E v \in Inputs : onChange(v)
  \/ \E q \in EXAMPLE_QUESTIONS : handleExampleClick(q)
  \/ handleSend
  \/ \E i \in 1..MaxSendCalls, o \in ChatOutcomes : ChatResponse(i, o)
  \/ \E tab \in {"chat", "dashboard"} : setActiveTab(tab)
  \/ \E e \in Endpoints, o \in GetOutcomes : GetResponse(e, o)

Spec == Init /\ [][Next]_vars

\* Every request that was issued settles: the GETs of the mounted Dashboard
\* keep being answered.
FairSpec ==
  Spec /\ WF_vars(\E e \in Endpoints, o \in GetOutcomes : GetResponse(e, o))

\* ================================================================ claims
Settled(e) == reqs[e] \notin {"none", "pending"}
AfterFailure == [InitialData EXCEPT !.loading = FALSE]
Fields(d) == <<d.alerts, d.inventory, d.stockoutRisks, d.suppliers>>

\* C1: whenever the displayed chat has no request in flight, the transcript
\* holds 1 + 2 x (number of completed send cycles) messages.
C1_TranscriptLength ==
  (activeTab = "chat" /\ chatReqs = <<>>) => Len(messages) = 1 + 2 * completed

\* C2: a call of handleSend made while a request is in flight, or with a blank
\* (empty or whitespace-only) input, changes neither the transcript, nor the
\* input buffer, nor the loading flag, and issues no request.
C2_BlockedSendIsNoOp ==
  [][ (sendCalls' # sendCalls /\ (loading \/ trim(input) = <<>>))
        => UNCHANGED <<messages, input, loading, chatReqs>> ]_vars

\* C2 witness: handleSend was called while the request was in flight, and the
\* request is still in flight.
C2_Witness ==
  lastCall = "busy" /\ loading /\ Len(messages) = 2 /\ Len(chatReqs) = 1

\* C3: at most one POST /api/chat is in flight at any time.
C3_OneInFlight == Len(chatReqs) <= 1

\* C4: the transcript starts as the seed greeting and every step leaves it
\* unchanged or appends exactly one message to it.
C4_AppendOnly ==
  /\ messages = SeedMessages
  /\ [][ \/ messages' = messages
         \/ /\ Len(messages') = Len(messages) + 1
            /\ SubSeq(messages', 1, Len(messages)) = messages ]_vars

\* C5: in one fetch cycle of a Dashboard, data.loading goes from true to false
\* exactly once (one setData call, never back to true), whatever the mix of
\* outcomes, it is false once the four requests have settled, and a Dashboard
\* that stays displayed does get there.
C5_LoadingClearedOnce ==
  /\ [](activeTab = "dashboard" =>
          /\ clears <= 1
          /\ data.loading <=> clears = 0
          /\ joined <=> clears = 1
          /\ (\A e \in Endpoints : Settled(e)) => ~data.loading)
  /\ [][ (activeTab = "dashboard" /\ activeTab' = "dashboard"
           /\ refreshCalls' = refreshCalls /\ ~data.loading)
          => ~data'.loading ]_vars
  /\ ((activeTab = "dashboard" /\ data.loading)
        ~> (activeTab = "chat" \/ ~data.loading))

\* C5 witness: a cycle with both a rejected and a fulfilled request ended and
\* cleared the flag.
C5_Witness ==
  /\ activeTab = "dashboard" /\ ~data.loading /\ clears = 1
  /\ reqs["alerts"] = "ok" /\ reqs["inventory"] = "reject"
  /\ \A e \in Endpoints : Settled(e)

\* C6: the snapshot is committed as a whole and only when none of the four
\* requests was rejected; when one was, the four fields keep their prior
\* values and only loading changes, to false.
C6_AtomicCommit ==
  activeTab = "dashboard" =>
    /\ (\E e \in Endpoints : reqs[e] = "reject") => data = AfterFailure
    /\ Fields(data) # Fields(InitialData) =>
         \A e \in Endpoints : Settled(e) /\ reqs[e] # "reject"
    /\ Fields(data) = Fields(InitialData) \/ data = Snapshot(reqs)

\* C6 witness: three requests fulfilled, one rejected, nothing committed.
C6_Witness ==
  /\ activeTab = "dashboard" /\ data = AfterFailure
  /\ reqs["alerts"] = "reject"
  /\ \A e \in Endpoints \ {"alerts"} : reqs[e] = "ok"

SuppliersFailOnly ==
  /\ activeTab = "dashboard"
  /\ reqs["suppliers"] = "reject"
  /\ \A e \in Endpoints \ {"suppliers"} : reqs[e] = "ok"

\* C7 as stated: with getSupplierPerformance rejected and the other three
\* fulfilled, loading is false, suppliers keeps its prior value and alerts,
\* inventory and stockoutRisks hold the fetched data.
C7_PartialCommit ==
  SuppliersFailOnly =>
    /\ ~data.loading
    /\ data.suppliers = InitialData.suppliers
    /\ data.alerts = "fetched"
    /\ data.inventory = "fetched"
    /\ data.stockoutRisks = "fetched"

\* C7 amended: with getSupplierPerformance rejected and the other three
\* fulfilled, loading is false and all four fields keep their prior values.
C7_NothingCommitted == SuppliersFailOnly => data = AfterFailure

\* C7 witness: exactly that scenario has run to its end.
C7_Witness == SuppliersFailOnly /\ joined /\ ~crashed

C9_BannerIff ==
  Banner <=> (health.state = "settled" /\ health.http = "ok"
              /\ health.body = "false")

HealthFailed ==
  /\ health.state = "settled"
  /\ health.http # "ok" \/ health.body \in {"notJson", "null", "undefined"}

\* C10: a status outside 2xx and a malformed payload leave the same state as
\* a transport failure: health unknown and no banner, the fixed error message
\* in the chat, the prior snapshot with loading false in the dashboard.
C10_FailuresCollapse ==
  /\ HealthFailed => status = Null /\ ~Banner
  /\ lastChat \in {"reject", "nullBody", "noAnswer"}
       => messages[Len(messages)] = errorMessage
  /\ (activeTab = "dashboard" /\ joined
       /\ \E e \in Endpoints : reqs[e] \in {"reject", "nullBody", "noField"})
       => data = AfterFailure
====
